---- MODULE Spec2Model ----
(***************************************************************************)
(* Model of src/server.js (armiko/dracin-api): the deeper.id scraper with  *)
(* its in-memory cache and the Express handlers around it.                 *)
(*                                                                         *)
(* src/server.js holds two successive revisions of the same module         *)
(* (lines 1-174 and lines 176-402).  The second revision redeclares every  *)
(* binding of the first, adds /api/status, the heuristic selector, the     *)
(* title filter and the de-duplication; it is the program modelled here.   *)
(* The cache logic of /api/dramas, /api/search and /api/clear-cache is     *)
(* the same in both revisions.                                             *)
(*                                                                         *)
(* JavaScript strings are modelled as sequences of one-character strings,  *)
(* so that length, prefix, substring and concatenation are computed.       *)
(* null / undefined / "" (all falsy, and only ever tested for truthiness   *)
(* by the code) are the empty sequence; a nullable holder of a value v is  *)
(* Some(v) = <<v>>.                                                        *)
(***************************************************************************)
EXTENDS Integers, Sequences, FiniteSets, TLC

VARIABLES
    now,            \* the wall clock, Date.now(), in ms
    ticks,          \* number of clock advances so far (bounds the run)
    cachedData,     \* Null, or Some(list of records)         (line 194)
    lastFetchTime,  \* 0 when unset, else a Date.now() value  (line 195)
    pc,             \* per request slot: "ready", "dramas_await", "search_await"
    currentTime,    \* per request slot: the local const of /api/dramas (line 323)
    query,          \* per request slot: the local const of /api/search (line 363)
    response,       \* what the latest handler step sent (NoResponse if it suspended)
    lastOp,         \* the latest handler step
    afterClear,     \* whether the handler step before the latest was clear-cache
    lastRun,        \* the pipeline run the latest handler step consumed (NoRun if none)
    doc,            \* extraction runs: the fetched document
    phase,          \* extraction runs: "fetched", "returned"
    out             \* extraction runs: what scrapeDeeperData returned

vars == <<now, ticks, cachedData, lastFetchTime, pc, currentTime, query,
          response, lastOp, afterClear, lastRun, doc, phase, out>>

serverVars == <<now, ticks, cachedData, lastFetchTime, pc, currentTime, query,
                response, lastOp, afterClear, lastRun>>
scrapeVars == <<doc, phase, out>>

-----------------------------------------------------------------------------
(* Bounds of the model *)

NumReq == 2          \* request slots that can be in flight together
MaxTicks == 3        \* clock advances in one run
StartTime == 1       \* Date.now() at process start (never 0)
MaxItems == 3        \* elements matched by the primary selector
MaxFallback == 1     \* elements matched by the fallback selector

Req == 1..NumReq

-----------------------------------------------------------------------------
(* Configuration, lines 190-191 *)

TARGET_URL == <<"h","t","t","p","s",":","/","/","d","e","e","p","e","r",".","i","d">>
CACHE_DURATION == 10 * 60 * 1000

Null == <<>>
Some(v) == <<v>>

-----------------------------------------------------------------------------
(* String primitives of JavaScript used by the scraper *)

UpperToLower ==
    ("A" :> "a") @@ ("B" :> "b") @@ ("C" :> "c") @@ ("D" :> "d") @@ ("E" :> "e") @@
    ("F" :> "f") @@ ("G" :> "g") @@ ("H" :> "h") @@ ("I" :> "i") @@ ("J" :> "j") @@
    ("K" :> "k") @@ ("L" :> "l") @@ ("M" :> "m") @@ ("N" :> "n") @@ ("O" :> "o") @@
    ("P" :> "p") @@ ("Q" :> "q") @@ ("R" :> "r") @@ ("S" :> "s") @@ ("T" :> "t") @@
    ("U" :> "u") @@ ("V" :> "v") @@ ("W" :> "w") @@ ("X" :> "x") @@ ("Y" :> "y") @@
    ("Z" :> "z")

toLowerCase(s) ==
    [i \in 1..Len(s) |-> IF s[i] \in DOMAIN UpperToLower THEN UpperToLower[s[i]] ELSE s[i]]

startsWith(s, p) == Len(s) >= Len(p) /\ SubSeq(s, 1, Len(p)) = p

includes(s, sub) ==
    \E i \in 0..(Len(s) - Len(sub)) : SubSeq(s, i + 1, i + Len(sub)) = sub

Whitespace == {" "}

RECURSIVE trimStart(_)
trimStart(s) ==
    IF s # <<>> /\ Head(s) \in Whitespace THEN trimStart(Tail(s)) ELSE s

RECURSIVE trimEnd(_)
trimEnd(s) ==
    IF s # <<>> /\ s[Len(s)] \in Whitespace THEN trimEnd(SubSeq(s, 1, Len(s) - 1)) ELSE s

trim(s) == trimEnd(trimStart(s))

\* a || b on strings / undefined
Or(a, b) == IF a # <<>> THEN a ELSE b

HTTP == <<"h","t","t","p">>
HOME == <<"h","o","m","e">>
UNKNOWN == <<"U","n","k","n","o","w","n">>

-----------------------------------------------------------------------------
(* The document as the cheerio queries of scrapeDeeperData see it.  An     *)
(* element is what the lookups of lines 244-256 read from it; a document   *)
(* is the match list of the class selector (line 226) and the match list   *)
(* of 'a:has(img)' (line 233), each in document order.                     *)

El(t, alt, h, txt, href, ahref, ep, src, dsrc) ==
    [title |-> t, alt |-> alt, heading |-> h, text |-> txt, href |-> href,
     ahref |-> ahref, ep |-> ep, src |-> src, dataSrc |-> dsrc]

ElA == El(<<"A","b","c">>, <<>>, <<>>, <<>>, <<"/","x">>, <<>>, <<>>, <<"/","/","c","/","y">>, <<>>)
ElB == El(<<>>, <<"B","c","d">>, <<>>, <<>>, <<>>, <<"x">>, <<" ","E","p","1"," ">>, <<>>, <<"/","i">>)
ElC == El(<<>>, <<>>, <<" ","C","d","e"," ">>, <<"z">>, <<"h","t","t","p",":","/","/","v">>, <<>>, <<>>, <<"i">>, <<>>)
ElHome == El(<<>>, <<>>, <<>>, <<" ","H","o","m","e">>, <<"/","h">>, <<>>, <<>>, <<>>, <<>>)
ElHomeIn == El(<<"x","H","O","M","E","y">>, <<>>, <<>>, <<>>, <<"/","x">>, <<>>, <<>>, <<>>, <<>>)
ElShort == El(<<"a","b">>, <<>>, <<>>, <<"A","b","c","d">>, <<"/","x">>, <<>>, <<>>, <<>>, <<>>)
ElNoLink == El(<<"A","b","c">>, <<>>, <<>>, <<>>, <<>>, <<>>, <<>>, <<"h","t","t","p",":","/","/","i">>, <<>>)
ElBlank == El(<<>>, <<>>, <<" "," "," ">>, <<" ">>, <<"/","x">>, <<>>, <<>>, <<>>, <<>>)

ElFtp == El(<<"F","t","p">>, <<>>, <<>>, <<>>, <<"f","t","p",":","v">>, <<>>, <<>>, <<"h","t","t","p",":","/","/","i">>, <<>>)
ElHttpRel == El(<<"R","e","l">>, <<>>, <<>>, <<>>, <<>>, <<"h","t","t","p","x">>, <<>>, <<>>, <<>>)

Elements == {ElA, ElB, ElC, ElHome, ElHomeIn, ElShort, ElNoLink, ElBlank, ElFtp, ElHttpRel}
AnchorElements == {ElA, ElHome}

SeqsUpTo(S, n) == UNION {[1..k -> S] : k \in 0..n}

Doc(p, f) == [primary |-> p, fallback |-> f]

AllDocs == {Doc(p, f) : p \in SeqsUpTo(Elements, MaxItems),
                        f \in SeqsUpTo(AnchorElements, MaxFallback)}

-----------------------------------------------------------------------------
(* scrapeDeeperData, lines 203-296 *)

\* lines 226-234
selectItemsMutBoth(d) == d.primary \o d.fallback
selectItems(d) == IF Len(d.primary) = 0 THEN d.fallback ELSE d.primary

\* lines 244-247
extractTitle(el) == Or(el.title, Or(el.alt, Or(trim(el.heading), trim(el.text))))
\* line 250
extractLink(el) == Or(el.href, el.ahref)
\* line 253
extractEpisodes(el) == trim(el.ep)
\* line 256
extractImage(el) == Or(el.src, el.dataSrc)

\* line 259
acceptedMutLen(title, link) ==
    title # <<>> /\ Len(title) >= 2 /\ link # <<>>
        /\ ~includes(toLowerCase(title), HOME)
accepted(title, link) ==
    title # <<>> /\ Len(title) > 2 /\ link # <<>>
        /\ ~includes(toLowerCase(title), HOME)

\* lines 261-263
cleanLink(link) ==
    IF link # <<>> /\ ~startsWith(link, HTTP)
    THEN IF startsWith(link, <<"/">>) THEN TARGET_URL \o link
                                      ELSE TARGET_URL \o <<"/">> \o link
    ELSE link

\* lines 266-268
cleanImage(image) ==
    IF image # <<>> /\ ~startsWith(image, HTTP)
    THEN IF startsWith(image, <<"/","/">>) THEN <<"h","t","t","p","s",":">> \o image
                                           ELSE image
    ELSE image

\* lines 270-278; index is the 0-based position of the element in items
makeRecord(index, el) ==
    [id |-> index + 1,
     title |-> extractTitle(el),
     episodes |-> Or(extractEpisodes(el), UNKNOWN),
     genres |-> <<"Drama">>,
     summary |-> "Lihat detail di link asli.",
     image |-> Or(cleanImage(extractImage(el)), Null),
     url |-> cleanLink(extractLink(el))]

\* lines 238-280: items.each pushes a record for every accepted element
RECURSIVE eachFrom(_, _)
eachFrom(items, index) ==
    IF index >= Len(items) THEN <<>>
    ELSE LET el == items[index + 1]
         IN  (IF accepted(extractTitle(el), extractLink(el))
              THEN <<makeRecord(index, el)>> ELSE <<>>)
             \o eachFrom(items, index + 1)

\* Map.prototype.set: an existing key keeps its position and takes the new
\* value, a new key is appended.  A Map is its entry list <<key, value>>.
mapSet(m, k, v) ==
    IF \E i \in 1..Len(m) : m[i][1] = k
    THEN [i \in 1..Len(m) |-> IF m[i][1] = k THEN <<k, v>> ELSE m[i]]
    ELSE Append(m, <<k, v>>)

\* new Map(iterable): set every entry in order
RECURSIVE newMap(_, _)
newMap(m, entries) ==
    IF entries = <<>> THEN m
    ELSE newMap(mapSet(m, Head(entries)[1], Head(entries)[2]), Tail(entries))

\* line 283
uniqueDramasMutNoDedup(dramas) == dramas
uniqueDramas(dramas) ==
    LET m == newMap(<<>>, [i \in 1..Len(dramas) |-> <<dramas[i].url, dramas[i]>>])
    IN  [i \in 1..Len(m) |-> m[i][2]]

\* lines 217-286: the part of scrapeDeeperData after a successful fetch
scrapeDeeperData(d) == uniqueDramas(eachFrom(selectItems(d), 0))

\* lines 288-295: what the catch block throws for a failed fetch
FetchFailures == {"forbidden", "timeout", "other"}
scrapeError(f) ==
    IF f = "forbidden"
    THEN "Akses ditolak (403). Website mungkin diproteksi Cloudflare."
    ELSE "Gagal mengambil data dari deeper.id"

-----------------------------------------------------------------------------
(* The handlers, lines 306-393 *)

\* Documents the source site may answer with while the server runs
ServerDocs == {Doc(<<>>, <<>>), Doc(<<ElA, ElB, ElC>>, <<ElA>>), Doc(<<>>, <<ElA>>)}

\* Query strings of /api/search (req.query.q; absent is the empty sequence)
Queries == {<<>>, <<"B","C">>}

\* Clock advances between steps, in ms
Deltas == {1, CACHE_DURATION - 1}

NoResponse == [route |-> "none"]
NoOp == "none"

\* Outcomes of a pipeline run, as the awaiting handler receives them
NoRun == [route |-> "none"]
RunOk(route, records) == [route |-> route, ok |-> TRUE, records |-> records]
RunFailed(route, f) == [route |-> route, ok |-> FALSE, failure |-> f]

\* line 325: the freshness test of /api/dramas at time t
isFreshMutCoalesce(t) ==
    cachedData # Null /\ (t - lastFetchTime < CACHE_DURATION
                            \/ \E s \in Req : pc[s] = "dramas_await")
isFreshMutLeq(t) == cachedData # Null /\ (t - lastFetchTime <= CACHE_DURATION)
isFresh(t) == cachedData # Null /\ (t - lastFetchTime < CACHE_DURATION)

\* lines 373-375
filterByTitle(data, q) ==
    LET keep == {i \in 1..Len(data) : includes(toLowerCase(data[i].title), q)}
        RECURSIVE pick(_)
        pick(i) == IF i > Len(data) THEN <<>>
                   ELSE (IF i \in keep THEN <<data[i]>> ELSE <<>>) \o pick(i + 1)
    IN  pick(1)

\* lines 307-318: the body of /api/status
statusBody ==
    [route |-> "status", code |-> 200, status |-> "online",
     cache_status |-> IF cachedData # Null THEN "Active (In Memory)" ELSE "Empty",
     last_update |-> IF lastFetchTime # 0 THEN Some(lastFetchTime) ELSE Null,
     total_items |-> IF cachedData # Null THEN Len(cachedData[1]) ELSE 0]

\* lines 327-333
cacheBody ==
    [route |-> "dramas", code |-> 200, status |-> "success", source |-> "cache",
     cached_at |-> lastFetchTime, total |-> Len(cachedData[1]), data |-> cachedData[1]]

\* lines 341-346
liveBodyMutEmptyFails(freshData) ==
    IF freshData = <<>>
    THEN [route |-> "dramas", code |-> 500, status |-> "error",
          message |-> "Gagal mengambil data dari deeper.id"]
    ELSE [route |-> "dramas", code |-> 200, status |-> "success",
          source |-> "live_scraping", total |-> Len(freshData), data |-> freshData]
liveBody(freshData) ==
    [route |-> "dramas", code |-> 200, status |-> "success", source |-> "live_scraping",
     total |-> Len(freshData), data |-> freshData]

\* lines 349-355, evaluated in the state in which the catch block runs
oldCacheBodyMutEmpty(msg) ==
    [route |-> "dramas", code |-> 200, status |-> "warning", source |-> "old_cache",
     error_detail |-> msg, data |-> <<>>]
oldCacheBody(msg) ==
    [route |-> "dramas", code |-> 200, status |-> "warning", source |-> "old_cache",
     error_detail |-> msg, data |-> cachedData[1]]

\* lines 357 and 384
errorBodyMutSilent(route, msg) == NoResponse
errorBody(route, msg) ==
    [route |-> route, code |-> 500, status |-> "error", message |-> msg]

\* lines 377-382
searchBody(q, filtered) ==
    [route |-> "search", code |-> 200, status |-> "success", query |-> q,
     total_found |-> Len(filtered), data |-> filtered]

\* Request slots are interchangeable: an arriving request takes the first free one
FreeSlot(r) == pc[r] = "ready" /\ \A s \in 1..(r - 1) : pc[s] # "ready"

Step(op) == /\ lastOp' = op
            /\ afterClear' = (lastOp = "clear")

Init ==
    /\ now = StartTime
    /\ ticks = 0
    /\ cachedData = Null
    /\ lastFetchTime = 0
    /\ pc = [r \in Req |-> "ready"]
    /\ currentTime = [r \in Req |-> 0]
    /\ query = [r \in Req |-> <<>>]
    /\ response = NoResponse
    /\ lastOp = NoOp
    /\ afterClear = FALSE
    /\ lastRun = NoRun
    /\ doc = Doc(<<>>, <<>>)
    /\ phase = "idle"
    /\ out = <<>>

\* Time passes between handler steps
Tick ==
    /\ ticks < MaxTicks
    /\ \E d \in Deltas : now' = now + d
    /\ ticks' = ticks + 1
    /\ UNCHANGED <<cachedData, lastFetchTime, pc, currentTime, query, response,
                   lastOp, afterClear, lastRun, scrapeVars>>

\* /api/status, lines 306-319
Status ==
    /\ response' = statusBody
    /\ Step("status")
    /\ lastRun' = NoRun
    /\ UNCHANGED <<now, ticks, cachedData, lastFetchTime, pc, currentTime, query,
                   scrapeVars>>

\* /api/dramas up to its first suspension, lines 322-337
DramasArrive(r) ==
    /\ FreeSlot(r)
    /\ IF isFresh(now)
       THEN /\ response' = cacheBody
            /\ UNCHANGED <<pc, currentTime>>
       ELSE /\ response' = NoResponse
            /\ pc' = [pc EXCEPT ![r] = "dramas_await"]
            /\ currentTime' = [currentTime EXCEPT ![r] = now]
    /\ Step("dramas")
    /\ lastRun' = NoRun
    /\ UNCHANGED <<now, ticks, cachedData, lastFetchTime, query, scrapeVars>>

\* line 339: the timestamp /api/dramas stores with the fresh data
dramasStampMutNow(r) == now
dramasStamp(r) == currentTime[r]

\* /api/dramas resumed by a successful scrape, lines 337-346
DramasScrapeOk(r) ==
    /\ pc[r] = "dramas_await"
    /\ \E d \in ServerDocs :
          LET freshData == scrapeDeeperData(d)
          IN  /\ cachedData' = Some(freshData)
              /\ lastFetchTime' = dramasStamp(r)
              /\ response' = liveBody(freshData)
              /\ lastRun' = RunOk("dramas", freshData)
    /\ pc' = [pc EXCEPT ![r] = "ready"]
    /\ currentTime' = [currentTime EXCEPT ![r] = 0]
    /\ Step("dramas_ok")
    /\ UNCHANGED <<now, ticks, query, scrapeVars>>

\* line 348: the test of the catch block of /api/dramas
hasOldCacheMutNever == FALSE
hasOldCache == cachedData # Null

\* /api/dramas resumed by a failed scrape, lines 347-358
DramasScrapeFail(r) ==
    /\ pc[r] = "dramas_await"
    /\ \E f \in FetchFailures :
          /\ response' = IF hasOldCache THEN oldCacheBody(scrapeError(f))
                                        ELSE errorBody("dramas", scrapeError(f))
          /\ lastRun' = RunFailed("dramas", f)
    /\ pc' = [pc EXCEPT ![r] = "ready"]
    /\ currentTime' = [currentTime EXCEPT ![r] = 0]
    /\ Step("dramas_fail")
    /\ UNCHANGED <<now, ticks, cachedData, lastFetchTime, query, scrapeVars>>

\* line 367: whether /api/search has to scrape
needsScrapeMutStale == cachedData = Null \/ now - lastFetchTime >= CACHE_DURATION
needsScrape == cachedData = Null

\* /api/search up to its first suspension, lines 362-368
SearchArrive(r) ==
    /\ FreeSlot(r)
    /\ \E q \in Queries :
          LET lq == toLowerCase(q)
          IN  IF needsScrape
              THEN /\ response' = NoResponse
                   /\ pc' = [pc EXCEPT ![r] = "search_await"]
                   /\ query' = [query EXCEPT ![r] = lq]
              ELSE /\ response' = searchBody(lq, filterByTitle(cachedData[1], lq))
                   /\ UNCHANGED <<pc, query>>
    /\ Step("search")
    /\ lastRun' = NoRun
    /\ UNCHANGED <<now, ticks, cachedData, lastFetchTime, currentTime, scrapeVars>>

\* /api/search resumed by a successful scrape, lines 368-382
SearchScrapeOk(r) ==
    /\ pc[r] = "search_await"
    /\ \E d \in ServerDocs :
          LET dataToSearch == scrapeDeeperData(d)
          IN  /\ cachedData' = Some(dataToSearch)
              /\ lastFetchTime' = now
              /\ response' = searchBody(query[r], filterByTitle(dataToSearch, query[r]))
              /\ lastRun' = RunOk("search", dataToSearch)
    /\ pc' = [pc EXCEPT ![r] = "ready"]
    /\ query' = [query EXCEPT ![r] = <<>>]
    /\ Step("search_ok")
    /\ UNCHANGED <<now, ticks, currentTime, scrapeVars>>

\* /api/search resumed by a failed scrape, lines 383-385
SearchScrapeFail(r) ==
    /\ pc[r] = "search_await"
    /\ \E f \in FetchFailures :
          /\ response' = errorBody("search", scrapeError(f))
          /\ lastRun' = RunFailed("search", f)
    /\ pc' = [pc EXCEPT ![r] = "ready"]
    /\ query' = [query EXCEPT ![r] = <<>>]
    /\ Step("search_fail")
    /\ UNCHANGED <<now, ticks, cachedData, lastFetchTime, currentTime, scrapeVars>>

\* lines 390-391: what clear-cache stores
clearedDataMutKeep == cachedData
clearedData == Null
clearedStampMutKeep == lastFetchTime
clearedStamp == 0

\* /api/clear-cache, lines 389-393
ClearCache ==
    /\ cachedData' = clearedData
    /\ lastFetchTime' = clearedStamp
    /\ response' = [route |-> "clear-cache", code |-> 200,
                    message |-> "Cache telah dibersihkan."]
    /\ Step("clear")
    /\ lastRun' = NoRun
    /\ UNCHANGED <<now, ticks, pc, currentTime, query, scrapeVars>>

Next ==
    \/ Tick
    \/ Status
    \/ ClearCache
    \/ \E r \in Req : DramasArrive(r)
    \/ \E r \in Req : DramasScrapeOk(r)
    \/ \E r \in Req : DramasScrapeFail(r)
    \/ \E r \in Req : SearchArrive(r)
    \/ \E r \in Req : SearchScrapeOk(r)
    \/ \E r \in Req : SearchScrapeFail(r)

Spec == Init /\ [][Next]_vars

\* axios.get settles every request, at the latest by its timeout (line 214):
\* a suspended handler is eventually resumed with the data or with the error
Resume(r) ==
    \/ DramasScrapeOk(r)
    \/ DramasScrapeFail(r)
    \/ SearchScrapeOk(r)
    \/ SearchScrapeFail(r)

\* The clock at the grain that matters to a suspended request: the cached
\* data goes from fresh to stale, once
Expire ==
    /\ now = StartTime
    /\ ticks < MaxTicks
    /\ now' = now + CACHE_DURATION
    /\ ticks' = ticks + 1
    /\ UNCHANGED <<cachedData, lastFetchTime, pc, currentTime, query, response,
                   lastOp, afterClear, lastRun, scrapeVars>>

FairNext ==
    \/ Expire
    \/ Status
    \/ ClearCache
    \/ \E r \in Req : DramasArrive(r)
    \/ \E r \in Req : DramasScrapeOk(r)
    \/ \E r \in Req : DramasScrapeFail(r)
    \/ \E r \in Req : SearchArrive(r)
    \/ \E r \in Req : SearchScrapeOk(r)
    \/ \E r \in Req : SearchScrapeFail(r)

FairSpec == Init /\ [][FairNext]_vars /\ \A r \in Req : WF_vars(Resume(r))

-----------------------------------------------------------------------------
(* Extraction runs on their own: every document of AllDocs is fetched and  *)
(* scrapeDeeperData is applied to it.                                      *)

ScrapeInit ==
    /\ now = StartTime
    /\ ticks = 0
    /\ cachedData = Null
    /\ lastFetchTime = 0
    /\ pc = [r \in Req |-> "ready"]
    /\ currentTime = [r \in Req |-> 0]
    /\ query = [r \in Req |-> <<>>]
    /\ response = NoResponse
    /\ lastOp = NoOp
    /\ afterClear = FALSE
    /\ lastRun = NoRun
    /\ doc \in AllDocs
    /\ phase = "fetched"
    /\ out = <<>>

RunScrape ==
    /\ phase = "fetched"
    /\ out' = scrapeDeeperData(doc)
    /\ phase' = "returned"
    /\ UNCHANGED <<doc, serverVars>>

ScrapeNext == RunScrape

ScrapeSpec == ScrapeInit /\ [][ScrapeNext]_vars

-----------------------------------------------------------------------------
(* Properties *)

\* A step of the handler code named op (clock advances leave lastOp alone)
IsStep(op) == ticks' = ticks /\ lastOp' = op

Source(resp) == IF "source" \in DOMAIN resp THEN resp.source ELSE ""
Populated == cachedData # Null
Awaiting(r) == pc[r] # "ready"
RunResults == {scrapeDeeperData(d) : d \in ServerDocs}

\* C1: a /api/dramas request arriving at time now with a populated cache is
\* answered from the cache, with exactly the cached records and without
\* starting a pipeline run, if now - lastFetchTime < CACHE_DURATION, and
\* starts a pipeline run without answering if now - lastFetchTime >=
\* CACHE_DURATION; in every reachable state.
C1_FreshnessDecides ==
    [][ (IsStep("dramas") /\ Populated) =>
          IF now - lastFetchTime < CACHE_DURATION
          THEN /\ response'.route = "dramas" /\ response'.code = 200
               /\ Source(response') = "cache"
               /\ response'.data = cachedData[1]
               /\ pc' = pc
               /\ cachedData' = cachedData /\ lastFetchTime' = lastFetchTime
          ELSE /\ response' = NoResponse
               /\ \E r \in Req : pc[r] = "ready" /\ pc'[r] = "dramas_await"
      ]_vars

\* C1 witness: a request that arrived one millisecond past the TTL of a populated
\* cache is running the pipeline, and no other request is in flight.
C1_Witness ==
    /\ lastOp = "dramas" /\ Populated
    /\ \E r \in Req :
          /\ pc[r] = "dramas_await"
          /\ currentTime[r] - lastFetchTime = CACHE_DURATION + 1
          /\ \A s \in Req \ {r} : pc[s] = "ready"

C3_StaleFallback ==
    [][ (IsStep("dramas_fail") /\ Populated) =>
          /\ response'.code = 200 /\ Source(response') = "old_cache"
          /\ response'.data = cachedData[1]
          /\ cachedData' = cachedData /\ lastFetchTime' = lastFetchTime
      ]_vars

\* C3 witness: an expired, non-empty record list was served as old_cache.
C3_Witness ==
    /\ lastOp = "dramas_fail" /\ Source(response) = "old_cache"
    /\ Populated /\ response.data = cachedData[1] /\ response.data # <<>>
    /\ now - lastFetchTime >= CACHE_DURATION

\* C4: when the pipeline run of a /api/dramas request fails while the cache is
\* empty, the answer is HTTP 500 with status "error", and the cache stays empty
\* with lastFetchTime unset.
C4_TotalFailure ==
    [][ (IsStep("dramas_fail") /\ ~Populated) =>
          /\ response'.route = "dramas" /\ response'.code = 500
          /\ response'.status = "error"
          /\ cachedData' = Null /\ lastFetchTime' = 0
      ]_vars

\* C4 witness: a /api/dramas request failed after a clear-cache emptied a
\* cache that had been populated.
C4_Witness ==
    /\ lastOp = "dramas_fail" /\ afterClear
    /\ response.code = 500 /\ ~Populated /\ lastFetchTime = 0

\* C5: no request is answered with HTTP 500 while the cache holds a record set.
C5_NoErrorWhilePopulated ==
    response # NoResponse /\ response.code = 500 => ~Populated

\* C6: a /api/search request arriving with a populated cache is answered at
\* once, starts no pipeline run and leaves the cache and lastFetchTime alone,
\* whatever the age of the cache; one arriving with an empty cache starts a
\* pipeline run, whose success stores its result in the cache.
C6_SearchUsesCache ==
    [][ /\ (IsStep("search") /\ Populated) =>
              /\ response'.route = "search" /\ response'.code = 200
              /\ pc' = pc
              /\ cachedData' = cachedData /\ lastFetchTime' = lastFetchTime
        /\ (IsStep("search") /\ ~Populated) =>
              /\ response' = NoResponse
              /\ \E r \in Req : pc[r] = "ready" /\ pc'[r] = "search_await"
        /\ IsStep("search_ok") =>
              \E res \in RunResults : cachedData' = Some(res)
      ]_vars

\* C6 witness: a search was answered from a cache older than the TTL.
C6_Witness ==
    /\ lastOp = "search" /\ response # NoResponse /\ response.route = "search"
    /\ Populated /\ now - lastFetchTime > CACHE_DURATION
    /\ \A r \in Req : pc[r] = "ready"

\* C7: a status read that immediately follows a clear-cache reports an empty
\* cache, a null last_update and total_items = 0.
C7_StatusAfterClear ==
    (lastOp = "status" /\ afterClear) =>
        /\ response.cache_status = "Empty"
        /\ response.last_update = Null
        /\ response.total_items = 0

\* C7 witness: a status read right after a clear-cache.
C7_Witness ==
    /\ lastOp = "status" /\ afterClear
    /\ response.route = "status" /\ response.cache_status = "Empty"

\* The records pushed by items.each for the fetched document, before line 283
Pushed == eachFrom(selectItems(doc), 0)

C9_FirstOccurrenceWins ==
    phase = "returned" =>
        \A k \in 1..Len(out) :
            \E i \in 1..Len(Pushed) :
                /\ out[k] = Pushed[i]
                /\ \A j \in 1..(i - 1) : Pushed[j].url # Pushed[i].url

Candidates == IF doc.primary # <<>> THEN doc.primary ELSE doc.fallback

Letters == DOMAIN UpperToLower \cup {UpperToLower[c] : c \in DOMAIN UpperToLower}

\* s starts with a URI scheme: letters followed by a colon
HasScheme(s) ==
    \E i \in 2..Len(s) : s[i] = ":" /\ \A j \in 1..(i - 1) : s[j] \in Letters

\* The base origin and a relative reference joined by exactly one slash
JoinBase(s) == TARGET_URL \o <<"/">> \o (IF Head(s) = "/" THEN Tail(s) ELSE s)

ExpectedUrl(link) == IF HasScheme(link) THEN link ELSE JoinBase(link)

ExpectedImage(src) ==
    IF src = <<>> THEN Null
    ELSE IF startsWith(src, <<"/","/">>) THEN <<"h","t","t","p","s",":">> \o src
    ELSE ExpectedUrl(src)

\* C11: the url of every returned record is the link of its candidate, kept
\* unchanged if the link starts with a scheme and otherwise joined to
\* https://deeper.id with exactly one separating slash.
C11_LinkNormalized ==
    phase = "returned" =>
        \A k \in 1..Len(out) :
            /\ out[k].id \in 1..Len(Candidates)
            /\ out[k].url = ExpectedUrl(extractLink(Candidates[out[k].id]))

\* C12: the image of every returned record is null or an absolute URL: the
\* image source of its candidate, with "//..." completed by "https:" and a
\* relative source joined to https://deeper.id like a link.
C12_ImageNormalized ==
    phase = "returned" =>
        \A k \in 1..Len(out) :
            /\ out[k].id \in 1..Len(Candidates)
            /\ out[k].image = Null \/ HasScheme(out[k].image)
            /\ out[k].image = ExpectedImage(extractImage(Candidates[out[k].id]))

\* C13: if the class selector matches at least one element, the returned
\* records are built from those matches only, and every accepted one of them is
\* represented; the anchor-with-image matches are used only when the class
\* selector matches nothing.
C13_PrimaryPreferred ==
    phase = "returned" =>
        LET used == IF Len(doc.primary) >= 1 THEN doc.primary ELSE doc.fallback
        IN  /\ \A k \in 1..Len(out) :
                  /\ out[k].id \in 1..Len(used)
                  /\ out[k].title = extractTitle(used[out[k].id])
                  /\ out[k].url = cleanLink(extractLink(used[out[k].id]))
            /\ \A i \in 1..Len(used) :
                  accepted(extractTitle(used[i]), extractLink(used[i])) =>
                      \E k \in 1..Len(out) : out[k].url = cleanLink(extractLink(used[i]))

\* C13 witness: a document with class-selector matches and an acceptable
\* anchor-with-image element of another url returned records of the former only.
C13_Witness ==
    /\ phase = "returned" /\ doc.primary # <<>> /\ out # <<>>
    /\ \E i \in 1..Len(doc.fallback) :
          /\ accepted(extractTitle(doc.fallback[i]), extractLink(doc.fallback[i]))
          /\ \A k \in 1..Len(out) : out[k].url # cleanLink(extractLink(doc.fallback[i]))

OkSteps == {"dramas_ok", "search_ok"}

\* C14: a pipeline run of /api/dramas whose fetch succeeded and which yielded
\* zero records is answered with the live_scraping response carrying the empty
\* list, and the cache holds the empty list.
C14_EmptyRunIsSuccess ==
    (lastRun # NoRun /\ lastRun.route = "dramas" /\ lastRun.ok /\ lastRun.records = <<>>) =>
        /\ response.route = "dramas" /\ response.code = 200
        /\ response.status = "success" /\ Source(response) = "live_scraping"
        /\ response.data = <<>> /\ response.total = 0
        /\ cachedData = Some(<<>>)

\* C14 witness: a run without records has just been stored and served.
C14_Witness ==
    /\ lastOp = "dramas_ok" /\ lastRun.ok /\ lastRun.records = <<>>
    /\ Source(response) = "live_scraping" /\ cachedData = Some(<<>>)
    /\ lastFetchTime # 0

\* C15: in every state a handler can observe, the record list and the
\* timestamp are both unset or both set, and every step that changes either of
\* them is one cache write (or the clear) that assigns both.
C15_CacheAtomic ==
    [][ /\ (cachedData' = Null) <=> (lastFetchTime' = 0)
        /\ (cachedData' # cachedData \/ lastFetchTime' # lastFetchTime) =>
              \/ IsStep("clear") /\ cachedData' = Null /\ lastFetchTime' = 0
              \/ /\ IsStep("dramas_ok")
                 /\ cachedData' = Some(lastRun'.records)
                 /\ \E r \in Req : /\ pc[r] = "dramas_await" /\ pc'[r] = "ready"
                                   /\ lastFetchTime' = currentTime[r]
              \/ /\ IsStep("search_ok")
                 /\ cachedData' = Some(lastRun'.records)
                 /\ lastFetchTime' = now
      ]_vars

\* C15 witness: a cache write has just happened while another handler is
\* suspended and will read the cache when it resumes.
C15_Witness ==
    /\ lastOp = "search_ok" /\ cachedData = Some(lastRun.records)
    /\ lastRun.records # <<>> /\ lastFetchTime = now
    /\ \E r \in Req : pc[r] = "dramas_await" /\ currentTime[r] < now

\* C16: a /api/dramas request that arrives while the cache is empty or expired
\* and another refresh is in flight starts its own pipeline run, and every
\* successful run overwrites the cache with its own records when it completes.
C16_NoCoalescing ==
    [][ /\ ( /\ IsStep("dramas")
             /\ ~(Populated /\ now - lastFetchTime < CACHE_DURATION)
             /\ \E s \in Req : pc[s] = "dramas_await" ) =>
              \E r \in Req : /\ pc[r] = "ready" /\ pc'[r] = "dramas_await"
                             /\ \A s \in Req \ {r} : pc'[s] = pc[s]
        /\ (ticks' = ticks /\ lastOp' \in OkSteps) =>
              /\ lastRun'.ok
              /\ cachedData' = Some(lastRun'.records)
      ]_vars

\* C16 witness: two /api/dramas requests that both found the populated cache
\* expired are both running the pipeline.
C16_Witness ==
    /\ lastOp = "dramas" /\ Populated
    /\ \E r, s \in Req :
          /\ r # s
          /\ pc[r] = "dramas_await" /\ pc[s] = "dramas_await"
          /\ currentTime[r] - lastFetchTime >= CACHE_DURATION
          /\ currentTime[s] - lastFetchTime >= CACHE_DURATION

\* C17: with every started fetch eventually settled, every suspended request
\* is eventually answered; the step that resumes it sends exactly one response,
\* and a failed fetch (a timeout included) is answered by the fallback rule:
\* old_cache if the cache is populated, HTTP 500 otherwise.
C17_EveryRequestAnswered ==
    /\ \A r \in Req : (pc[r] # "ready") ~> (pc[r] = "ready")
    /\ [][ \A r \in Req :
             (pc[r] # "ready" /\ pc'[r] # pc[r]) =>
                /\ pc'[r] = "ready"
                /\ response' # NoResponse
                /\ response'.route = (IF pc[r] = "dramas_await" THEN "dramas" ELSE "search")
                /\ (pc[r] = "dramas_await" /\ ~lastRun'.ok) =>
                      IF Populated THEN Source(response') = "old_cache"
                                   ELSE response'.code = 500
         ]_vars

\* C17 witness: a request whose fetch timed out has been answered from the
\* expired cache.
C17_Witness ==
    /\ lastOp = "dramas_fail" /\ lastRun.failure = "timeout"
    /\ Source(response) = "old_cache" /\ \A r \in Req : pc[r] = "ready"

\* C18: lastFetchTime decreases only through clear-cache.
C18_StampMonotone ==
    [][ lastFetchTime' < lastFetchTime => IsStep("clear") ]_vars

\* C19 as stated, at the first handler step after a clear-cache: if that step
\* is the successful completion of a pipeline run (which was therefore in
\* flight when the clear happened), the cache is still empty after it.
C19_Original ==
    (afterClear /\ lastOp \in OkSteps) => ~Populated

\* C19 amended: clear-cache leaves the cache empty, and the cache becomes
\* populated again only by the successful completion of a pipeline run, which
\* stores that run's records; the run may have been in flight at the clear.
C19_ClearedUntilRun ==
    [][ /\ IsStep("clear") => (cachedData' = Null /\ lastFetchTime' = 0)
        /\ (~Populated /\ Populated') =>
              /\ ticks' = ticks /\ lastOp' \in OkSteps
              /\ cachedData' = Some(lastRun'.records)
      ]_vars

\* C19 witness: the run that completed right after a clear-cache, and so was
\* in flight during it, has repopulated the cache.
C19_Witness ==
    /\ afterClear /\ lastOp \in OkSteps
    /\ Populated /\ cachedData = Some(lastRun.records)

\* C20 as stated: every old_cache response carries a record set that was
\* already expired (age >= CACHE_DURATION) when its request arrived.
C20_Original ==
    [][ (IsStep("dramas_fail") /\ Source(response') = "old_cache") =>
          \E r \in Req : /\ pc[r] = "dramas_await" /\ pc'[r] = "ready"
                         /\ currentTime[r] - lastFetchTime >= CACHE_DURATION
      ]_vars

\* C20 amended: an old_cache response is sent only by a /api/dramas request
\* whose pipeline run failed, and carries the record set that is in the cache
\* at the moment the run fails, whenever that set was written.
C20_FallbackIsCurrentCache ==
    [][ (ticks' = ticks /\ response' # NoResponse /\ Source(response') = "old_cache") =>
          /\ lastOp' = "dramas_fail"
          /\ \E r \in Req : pc[r] = "dramas_await" /\ pc'[r] = "ready"
          /\ Populated
          /\ response'.data = cachedData[1]
          /\ cachedData' = cachedData /\ lastFetchTime' = lastFetchTime
      ]_vars

\* C20 witness: an old_cache response carried a record set that is not expired
\* even now, written while the failing request's run was in flight.
C20_Witness ==
    /\ lastOp = "dramas_fail" /\ Source(response) = "old_cache"
    /\ Populated /\ response.data = cachedData[1] /\ response.data # <<>>
    /\ now - lastFetchTime < CACHE_DURATION

====
